---- MODULE Spec2Model ----
(***************************************************************************)
(* users-to-excel (src/main.py): fetch the user list of a remote API into  *)
(* data/users.json unless that file exists, then export it, sorted by last *)
(* and first name, into files/employees_YYYYMMDDHHMMSS.xlsx.               *)
(*                                                                         *)
(* Strings that the program inspects (names, file names) are sequences of  *)
(* code points; strings it only copies (email, phone, ...) are TLA+        *)
(* strings.  File and response contents are modelled up to the JSON value  *)
(* they decode to, plus the texts that do not decode at all.               *)
(***************************************************************************)
EXTENDS Integers, Sequences, FiniteSets, TLC

\* ------------------------------------------------------------------ bounds
\* Longest name of the records in a multi-record snapshot.
MaxNameLen == 3
\* Most records in a snapshot.
MaxUsers == 2
\* Longest name of the record of a single-record snapshot.
MaxRowNameLen == 5
\* Most calls of the two functions in one behaviour.
MaxCalls == 3
\* Most seconds the clock advances in one behaviour.
MaxTicks == 2
\* Most times the local wall clock is set back in one behaviour.
MaxSetBacks == 1

\* ----------------------------------------------------------------- strings
\* str.split() without arguments splits on runs of characters for which
\* str.isspace() holds; these are the ones below U+0100.
Whitespace == {9, 10, 11, 12, 13, 28, 29, 30, 31, 32, 133, 160}

RECURSIVE SplitFrom(_, _, _, _)
SplitFrom(s, i, cur, acc) ==
    IF i > Len(s)
    THEN IF cur = <<>> THEN acc ELSE Append(acc, cur)
    ELSE IF s[i] \in Whitespace
         THEN SplitFrom(s, i + 1, <<>>, IF cur = <<>> THEN acc ELSE Append(acc, cur))
         ELSE SplitFrom(s, i + 1, Append(cur, s[i]), acc)

\* name.split()
Split(s) == SplitFrom(s, 1, <<>>, <<>>)

\* user["name"].split()[-1]
LastName(user) == LET tokens == Split(user.name) IN tokens[Len(tokens)]

\* user["name"].split()[0]
FirstName(user) == Split(user.name)[1]

\* Python's < on str: the first differing code point decides, a proper
\* prefix is smaller.
RECURSIVE StrLess(_, _)
StrLess(a, b) ==
    IF b = <<>> THEN FALSE
    ELSE IF a = <<>> THEN TRUE
    ELSE IF a[1] # b[1] THEN a[1] < b[1]
    ELSE StrLess(Tail(a), Tail(b))

\* Python's < on 2-tuples of str.
TupleLess(k1, k2) ==
    IF k1[1] # k2[1] THEN StrLess(k1[1], k2[1]) ELSE StrLess(k1[2], k2[2])

\* Variant: the key with its parts exchanged.
SortKeyFirstThenLast(user) == <<FirstName(user), LastName(user)>>

\* key=lambda user: (user["name"].split()[-1], user["name"].split()[0])
SortKey(user) == <<LastName(user), FirstName(user)>>

\* sorted() is stable: an element goes behind every element that is not
\* greater than it.
RECURSIVE InsertStable(_, _)
InsertStable(done, u) ==
    IF done = <<>> THEN <<u>>
    ELSE IF TupleLess(SortKey(u), SortKey(Head(done)))
         THEN <<u>> \o done
         ELSE <<Head(done)>> \o InsertStable(Tail(done), u)

RECURSIVE Sorted(_)
Sorted(users) ==
    IF users = <<>> THEN <<>>
    ELSE InsertStable(Sorted(SubSeq(users, 1, Len(users) - 1)), users[Len(users)])

\* -------------------------------------------------------------- JSON values
Absent == [t |-> "absent"]
\* Text that json does not decode: the empty file, an HTML error page.
EmptyText == [t |-> "invalid", raw |-> ""]
HtmlText == [t |-> "invalid", raw |-> "<html>"]
JNull == [t |-> "null"]
JObject(keys) == [t |-> "object", keys |-> keys]
JArray(items) == [t |-> "array", items |-> items]
JString(s) == [t |-> "string", s |-> s]

Address == [street |-> "1 Main", city |-> "Springfield", zipcode |-> "00001"]

User(name, email) ==
    [name |-> name, email |-> email, phone |-> "555", website |-> "x.com",
     address |-> Address]

\* ------------------------------------------------------------------- export
Header ==
    <<"last name", "first name", "email", "street", "city", "zipcode",
      "phone", "website">>

\* Variant: the two name columns exchanged.
RowFirstLast(user) ==
    <<FirstName(user), LastName(user), user.email, user.address.street,
      user.address.city, user.address.zipcode, user.phone, user.website>>

Row(user) ==
    <<LastName(user), FirstName(user), user.email, user.address.street,
      user.address.city, user.address.zipcode, user.phone, user.website>>

\* What sorted() iterates over: the items of an array, the keys of an object.
ItemsOf(v) ==
    IF v.t = "array" THEN v.items
    ELSE [i \in 1..Len(v.keys) |-> JString(v.keys[i])]

\* The exception the sort key raises on an item, or "none".
SortKeyError(item) ==
    IF "t" \in DOMAIN item THEN "TypeError"
    ELSE IF "name" \notin DOMAIN item THEN "KeyError"
    ELSE IF Split(item.name) = <<>> THEN "IndexError"
    ELSE "none"

\* The exception building the row of an item raises, or "none".
RowError(item) ==
    IF {"email", "address", "phone", "website"} \subseteq DOMAIN item
    THEN "none" ELSE "KeyError"

\* The first exception of a sequence of outcomes, or "none".
FirstError(errors) ==
    IF \A i \in 1..Len(errors) : errors[i] = "none" THEN "none"
    ELSE errors[CHOOSE k \in 1..Len(errors) :
                    /\ errors[k] # "none"
                    /\ \A j \in 1..(k - 1) : errors[j] = "none"]

\* The worksheet: ws.append(header), then ws.append(row) per sorted user.
Worksheet(users) ==
    LET sorted_users == Sorted(users)
    IN <<Header>> \o [i \in 1..Len(users) |-> Row(sorted_users[i])]

\* ---------------------------------------------------------------- file name
RECURSIVE Pow10(_)
Pow10(k) == IF k = 0 THEN 1 ELSE 10 * Pow10(k - 1)

\* A number as w decimal digits, zero-padded (code points of "0".."9").
Digits(n, w) == [i \in 1..w |-> 48 + ((n \div Pow10(w - i)) % 10)]

\* now.strftime("%Y%m%d%H%M%S")
Strftime(d) ==
    Digits(d.year, 4) \o Digits(d.month, 2) \o Digits(d.day, 2)
        \o Digits(d.hour, 2) \o Digits(d.minute, 2) \o Digits(d.second, 2)

\* "files"
SaveFolder == <<102, 105, 108, 101, 115>>
\* "employees_"
EmployeesPrefix == <<101, 109, 112, 108, 111, 121, 101, 101, 115, 95>>
\* ".xlsx"
XlsxSuffix == <<46, 120, 108, 115, 120>>

\* Path(save_folder, f"employees_{timestamp}.xlsx")
SavePath(d) == SaveFolder \o <<47>> \o EmployeesPrefix \o Strftime(d) \o XlsxSuffix

\* -------------------------------------------------------------------- clock
IsLeap(y) == (y % 4 = 0 /\ y % 100 # 0) \/ y % 400 = 0

DaysInMonth(y, m) ==
    IF m = 2 THEN (IF IsLeap(y) THEN 29 ELSE 28)
    ELSE IF m \in {4, 6, 9, 11} THEN 30 ELSE 31

DateTime(y, mo, d, h, mi, s) ==
    [year |-> y, month |-> mo, day |-> d, hour |-> h, minute |-> mi, second |-> s]

\* The wall clock one second later.
NextSecond(d) ==
    IF d.second < 59 THEN [d EXCEPT !.second = d.second + 1]
    ELSE IF d.minute < 59 THEN [d EXCEPT !.second = 0, !.minute = d.minute + 1]
    ELSE IF d.hour < 23
         THEN [d EXCEPT !.second = 0, !.minute = 0, !.hour = d.hour + 1]
    ELSE IF d.day < DaysInMonth(d.year, d.month)
         THEN DateTime(d.year, d.month, d.day + 1, 0, 0, 0)
    ELSE IF d.month < 12 THEN DateTime(d.year, d.month + 1, 1, 0, 0, 0)
    ELSE DateTime(d.year + 1, 1, 1, 0, 0, 0)

\* ------------------------------------------------------ the two functions
Raised(e) == [outcome |-> "raise", exc |-> e]
Returned == [outcome |-> "return", exc |-> "none"]

\* Variant: a failed request leaves an empty list as the snapshot.
FetchWritesOnFailure(f, resp, folderOk) ==
    IF f # Absent
    THEN [after |-> f, req |-> 0, log |-> "skip", end |-> Returned]
    ELSE IF resp.kind # "ok"
    THEN [after |-> JArray(<<>>), req |-> 1, log |-> "failed", end |-> Returned]
    ELSE [after |-> resp.body, req |-> 1, log |-> "created", end |-> Returned]

\* Variant: an undecodable snapshot is fetched again.
FetchRevalidates(f, resp, folderOk) ==
    IF f # Absent /\ f.t # "invalid"
    THEN [after |-> f, req |-> 0, log |-> "skip", end |-> Returned]
    ELSE IF resp.kind # "ok"
    THEN [after |-> f, req |-> 1, log |-> "failed", end |-> Returned]
    ELSE [after |-> resp.body, req |-> 1, log |-> "created", end |-> Returned]

\* Variant: the presence of the snapshot is not checked.
FetchAlways(f, resp, folderOk) ==
    IF resp.kind # "ok"
    THEN [after |-> f, req |-> 1, log |-> "failed", end |-> Returned]
    ELSE [after |-> resp.body, req |-> 1, log |-> "created", end |-> Returned]

\* fetch_user_data_to_json(): the file afterwards, the requests issued, the
\* line logged and how the call ends.
FetchResult(f, resp, folderOk) ==
    IF f # Absent
    THEN [after |-> f, req |-> 0, log |-> "skip", end |-> Returned]
    ELSE IF resp.kind # "ok"
    THEN [after |-> Absent, req |-> 1, log |-> "failed", end |-> Returned]
    ELSE IF ~folderOk
    THEN [after |-> Absent, req |-> 1, log |-> "none",
          end |-> Raised("FileNotFoundError")]
    ELSE IF resp.body.t = "invalid"
    THEN [after |-> EmptyText, req |-> 1, log |-> "none",
          end |-> Raised("JSONDecodeError")]
    ELSE [after |-> resp.body, req |-> 1, log |-> "created", end |-> Returned]

NotSaved(e) == [end |-> Raised(e), table |-> <<>>, path |-> <<>>]

\* write_user_data_to_excel(save_folder): how the call ends and, when it
\* saves, the worksheet and the path.
WriteResult(f, folderOk, d) ==
    IF f = Absent THEN NotSaved("FileNotFoundError")
    ELSE IF f.t = "invalid" THEN NotSaved("JSONDecodeError")
    ELSE IF f.t = "null" THEN NotSaved("TypeError")
    ELSE LET users == ItemsOf(f)
             keyError == FirstError([i \in 1..Len(users) |-> SortKeyError(users[i])])
             rowError == FirstError([i \in 1..Len(users) |-> RowError(Sorted(users)[i])])
         IN IF keyError # "none" THEN NotSaved(keyError)
            ELSE IF rowError # "none" THEN NotSaved(rowError)
            ELSE IF ~folderOk THEN NotSaved("FileNotFoundError")
            ELSE [end |-> Returned, table |-> Worksheet(users), path |-> SavePath(d)]

\* ------------------------------------------------------------------- inputs
Letters == {65, 66}
NameChars == {32} \cup Letters
RowNameChars == {9} \cup NameChars

StringsOver(chars, n) == UNION {[1..k -> chars] : k \in 0..n}

\* The user's e-mail address tells the records of one snapshot apart.
EmailOf(i) == <<"a@x.com", "b@x.com", "c@x.com", "d@x.com">>[i]

Named(names) == [i \in 1..Len(names) |-> User(names[i], EmailOf(i))]

\* Names without leading or trailing whitespace.
SortNames ==
    {s \in StringsOver(NameChars, MaxNameLen) :
        s # <<>> /\ s[1] \in Letters /\ s[Len(s)] \in Letters}

\* Snapshots of up to MaxUsers users with such names.
SortSnapshots ==
    {JArray(Named(names)) : names \in UNION {[1..n -> SortNames] : n \in 0..MaxUsers}}

\* Snapshots of one user, of any name that holds a token.
RowSnapshots ==
    {JArray(<<User(s, "j@x.com")>>) :
        s \in {x \in StringsOver(RowNameChars, MaxRowNameLen) : Split(x) # <<>>}}

Jane == User(<<66, 32, 65>>, "j@x.com")
Bob == User(<<65, 32, 66>>, "b@x.com")
NoEmail == [name |-> <<65>>, phone |-> "555", website |-> "x.com", address |-> Address]
Blank == User(<<32>>, "n@x.com")

\* Contents of users.json and bodies of a response.
Contents ==
    {EmptyText, HtmlText, JNull, JObject(<<>>), JObject(<<"error">>),
     JArray(<<>>), JArray(<<Jane>>), JArray(<<Jane, Bob>>),
     JArray(<<NoEmail>>), JArray(<<Blank>>)}

\* What requests.get / raise_for_status end in.
Responses ==
    {[kind |-> k, body |-> Absent] : k \in {"ConnectionError", "Timeout", "HTTPError"}}
        \cup {[kind |-> "ok", body |-> b] : b \in Contents}

StartTimes ==
    {DateTime(1999, 12, 31, 23, 59, 58), DateTime(2024, 2, 28, 23, 59, 59),
     DateTime(2024, 10, 27, 3, 59, 59)}

\* -------------------------------------------------------------------- state
VARIABLES
    file,        \* data/users.json: its content, or Absent
    dataFolder,  \* whether the folder data/ exists
    saveFolder,  \* whether the folder files/ exists
    saved,       \* the workbooks in files/: a set of [path, table]
    now,         \* the local wall clock, what datetime.now() returns
    elapsed,     \* seconds of real time since the start
    setBacks,    \* times the wall clock was set back
    requests,    \* HTTP requests issued so far
    pc,          \* "idle", or "line90" between the two calls of a program run
    run,         \* the current or last program run
    calls,       \* calls of the two functions so far
    last,        \* the last call
    prev,        \* the call before it
    exports      \* the workbooks saved so far: [at, path] in order

vars ==
    <<file, dataFolder, saveFolder, saved, now, elapsed, setBacks, requests, pc,
      run, calls, last, prev, exports>>

NoResponse == [kind |-> "none", body |-> Absent]

NoCall ==
    [op |-> "none", before |-> Absent, after |-> Absent, req |-> 0,
     resp |-> NoResponse, end |-> Returned, log |-> "none", path |-> <<>>]

NoRun == [fetch |-> "none", export |-> "none", exited |-> FALSE, code |-> 0]

History ==
    /\ saved = {}
    /\ elapsed = 0
    /\ setBacks = 0
    /\ requests = 0
    /\ pc = "idle"
    /\ run = NoRun
    /\ calls = 0
    /\ last = NoCall
    /\ prev = NoCall
    /\ exports = <<>>

Init ==
    /\ file \in {Absent} \cup Contents
    /\ dataFolder \in BOOLEAN
    /\ saveFolder \in BOOLEAN
    /\ now \in StartTimes
    /\ History

\* The snapshot is there and the folders exist; only the export is of interest.
InitExport ==
    /\ file \in SortSnapshots \cup RowSnapshots
    /\ dataFolder = TRUE
    /\ saveFolder = TRUE
    /\ now = DateTime(2024, 2, 28, 23, 59, 59)
    /\ History

\* ------------------------------------------------------------------ actions
\* One call of fetch_user_data_to_json().
Fetch(resp) ==
    \E r \in {FetchResult(file, resp, dataFolder)} :
    /\ calls < MaxCalls
    /\ calls' = calls + 1
    /\ file' = r.after
    /\ requests' = requests + r.req
    /\ prev' = last
    /\ last' = [op |-> "fetch", before |-> file, after |-> r.after, req |-> r.req,
                resp |-> IF r.req = 1 THEN resp ELSE NoResponse,
                end |-> r.end, log |-> r.log, path |-> <<>>]
    /\ UNCHANGED <<dataFolder, saveFolder, saved, now, elapsed, setBacks, exports>>

\* One call of write_user_data_to_excel("files"); wb.save replaces a file of
\* the same name.
Write ==
    \E r \in {WriteResult(file, saveFolder, now)} :
    /\ calls < MaxCalls
    /\ calls' = calls + 1
    /\ prev' = last
    /\ last' = [op |-> "export", before |-> file, after |-> file, req |-> 0,
                resp |-> NoResponse, end |-> r.end,
                log |-> IF r.end = Returned THEN "saved" ELSE "none",
                path |-> r.path]
    /\ IF r.end = Returned
       THEN /\ saved' = {w \in saved : w.path # r.path}
                            \cup {[path |-> r.path, table |-> r.table]}
            /\ exports' = Append(exports, [at |-> elapsed, path |-> r.path])
       ELSE UNCHANGED <<saved, exports>>
    /\ UNCHANGED <<file, dataFolder, saveFolder, now, elapsed, setBacks, requests>>

\* python main.py, line 89: an exception that leaves fetch_user_data_to_json
\* ends the process with exit code 1.
MainFetch ==
    /\ pc = "idle"
    /\ \E resp \in Responses :
        /\ Fetch(resp)
        /\ IF FetchResult(file, resp, dataFolder).end = Returned
           THEN /\ pc' = "line90"
                /\ run' = [NoRun EXCEPT !.fetch = FetchResult(file, resp, dataFolder).log]
           ELSE /\ pc' = "idle"
                /\ run' = [NoRun EXCEPT !.fetch = "raised", !.exited = TRUE, !.code = 1]

\* python main.py, line 90, and the end of the process.
MainExport ==
    /\ pc = "line90"
    /\ Write
    /\ pc' = "idle"
    /\ run' = IF WriteResult(file, saveFolder, now).end = Returned
              THEN [run EXCEPT !.export = "saved", !.exited = TRUE, !.code = 0]
              ELSE [run EXCEPT !.export = "raised", !.exited = TRUE, !.code = 1]

\* A caller that imported the module calls fetch_user_data_to_json().
CallFetch ==
    /\ pc = "idle"
    /\ \E resp \in Responses : Fetch(resp)
    /\ UNCHANGED <<pc, run>>

\* A caller that imported the module calls write_user_data_to_excel("files").
CallWrite ==
    /\ pc = "idle"
    /\ Write
    /\ UNCHANGED <<pc, run>>

\* A second passes.
Tick ==
    /\ elapsed < MaxTicks
    /\ elapsed' = elapsed + 1
    /\ now' = NextSecond(now)
    /\ UNCHANGED <<file, dataFolder, saveFolder, saved, setBacks, requests, pc, run,
                   calls, last, prev, exports>>

\* datetime.now() is the naive local wall clock: it is set back an hour when
\* daylight saving time ends, or whenever the system clock is corrected.
SetBack ==
    /\ setBacks < MaxSetBacks
    /\ now.hour >= 1
    /\ setBacks' = setBacks + 1
    /\ now' = [now EXCEPT !.hour = now.hour - 1]
    /\ UNCHANGED <<file, dataFolder, saveFolder, saved, elapsed, requests, pc, run,
                   calls, last, prev, exports>>

Next == MainFetch \/ MainExport \/ CallFetch \/ CallWrite \/ Tick \/ SetBack

Spec == Init /\ [][Next]_vars

\* The export alone, once, of each snapshot.
ExportOnce == calls = 0 /\ CallWrite

SpecExport == InitExport /\ [][ExportOnce]_vars

\* ------------------------------------------------------------------- claims
\* The workbook saved by the last call.
LastTable == (CHOOSE w \in saved : w.path = last.path).table

Exported == last.op = "export" /\ last.end = Returned

\* a <= b in code-point order, said without recursion.
LexLeq(a, b) ==
    \/ Len(a) <= Len(b) /\ \A i \in 1..Len(a) : a[i] = b[i]
    \/ \E k \in 1..Len(a) :
        /\ k <= Len(b)
        /\ a[k] < b[k]
        /\ \A i \in 1..(k - 1) : a[i] = b[i]

\* Row r1 may stand before row r2: by last name, then by first name.
RowLeq(r1, r2) ==
    \/ r1[1] # r2[1] /\ LexLeq(r1[1], r2[1])
    \/ r1[1] = r2[1] /\ LexLeq(r1[2], r2[2])

IsToken(t) == t # <<>> /\ \A i \in 1..Len(t) : t[i] \notin Whitespace

\* t is the first run of non-whitespace characters of s.
IsFirstToken(t, s) ==
    /\ IsToken(t)
    /\ \E i \in 1..Len(s) :
        /\ \A j \in 1..(i - 1) : s[j] \in Whitespace
        /\ i + Len(t) - 1 <= Len(s)
        /\ SubSeq(s, i, i + Len(t) - 1) = t
        /\ i + Len(t) <= Len(s) => s[i + Len(t)] \in Whitespace

\* t is the last run of non-whitespace characters of s.
IsLastToken(t, s) ==
    /\ IsToken(t)
    /\ \E i \in 1..Len(s) :
        /\ \A j \in (i + 1)..Len(s) : s[j] \in Whitespace
        /\ i - Len(t) + 1 >= 1
        /\ SubSeq(s, i - Len(t) + 1, i) = t
        /\ i - Len(t) >= 1 => s[i - Len(t)] \in Whitespace

\* C1: while users.json exists no step changes its content or issues a
\* request: a call of fetch_user_data_to_json that finds the file skips the
\* request and leaves the file, and no other operation writes it.
CacheByPresence == [][file # Absent => (file' = file /\ requests' = requests)]_vars

\* C1's case: fetch_user_data_to_json was called with the file in place.
FetchSkipped == last.op = "fetch" /\ last.before # Absent /\ last.log = "skip"

\* C2 as stated: two calls of fetch_user_data_to_json in succession issue
\* exactly one request in total, from any state, and the second leaves the
\* file as the first left it.
TwoFetchesOneRequest ==
    (prev.op = "fetch" /\ last.op = "fetch")
        => (prev.req + last.req = 1 /\ last.req = 0 /\ last.after = prev.after)

\* C2 as amended: of two calls in succession, when the first leaves a
\* snapshot the second issues no request and leaves the file as it is, and the
\* total is one request if the first call created the file and none if it
\* found it; when the first leaves no snapshot, each call issues a request.
TwoFetches ==
    (prev.op = "fetch" /\ last.op = "fetch")
        => /\ prev.after # Absent =>
                /\ last.req = 0
                /\ last.after = prev.after
                /\ prev.req + last.req = (IF prev.before = Absent THEN 1 ELSE 0)
           /\ prev.after = Absent => (prev.req = 1 /\ last.req = 1)

\* C2's case: the first call created the file, the second skipped.
CreatedThenSkipped ==
    /\ prev.op = "fetch" /\ prev.before = Absent /\ prev.log = "created"
    /\ last.op = "fetch" /\ last.log = "skip"

\* C3: a fetch whose request ends in a transport failure, a timeout or a
\* non-success status leaves no users.json and reports the error to the
\* caller.
FailedFetchReported ==
    (last.op = "fetch" /\ last.resp.kind \in {"ConnectionError", "Timeout", "HTTPError"})
        => (last.after = Absent /\ last.end.outcome = "raise")

\* C4: the data rows of the workbook are the snapshot's records rearranged,
\* ascending by (last token of the name, first token of the name) in
\* code-point order, records with the same key in their order of input.
SortCorrect ==
    Exported =>
        LET users == last.before.items
            rows == Tail(LastTable)
        IN /\ Len(rows) = Len(users)
           /\ \E p \in Permutations(1..Len(users)) :
                /\ \A i \in 1..Len(rows) :
                    /\ rows[i][3] = users[p[i]].email
                    /\ IsLastToken(rows[i][1], users[p[i]].name)
                    /\ IsFirstToken(rows[i][2], users[p[i]].name)
                /\ \A i, j \in 1..Len(rows) :
                    i < j => /\ RowLeq(rows[i], rows[j])
                             /\ (rows[i][1] = rows[j][1] /\ rows[i][2] = rows[j][2])
                                    => p[i] < p[j]

\* C4's case: two records with the same last name were exported in the
\* order of their first names, against their order of input.
SortedByFirstName ==
    /\ Exported
    /\ Len(LastTable) = 3
    /\ LastTable[2][1] = LastTable[3][1]
    /\ LastTable[2][2] # LastTable[3][2]
    /\ LastTable[2][3] = last.before.items[2].email

\* C5: the workbook is the header row and one row per record, each row the
\* record's (last token of name, first token of name, email, street, city,
\* zipcode, phone, website); a single-token name fills both name columns.
FieldMapping ==
    Exported =>
        LET users == last.before.items
            table == LastTable
        IN /\ Len(table) = Len(users) + 1
           /\ table[1] = <<"last name", "first name", "email", "street", "city",
                           "zipcode", "phone", "website">>
           /\ \E p \in Permutations(1..Len(users)) :
                \A i \in 1..Len(users) :
                    LET u == users[p[i]]
                        row == table[i + 1]
                    IN /\ Len(row) = 8
                       /\ IsLastToken(row[1], u.name)
                       /\ IsFirstToken(row[2], u.name)
                       /\ IsToken(u.name) => (row[1] = u.name /\ row[2] = u.name)
                       /\ row[3] = u.email
                       /\ row[4] = u.address.street
                       /\ row[5] = u.address.city
                       /\ row[6] = u.address.zipcode
                       /\ row[7] = u.phone
                       /\ row[8] = u.website

\* C5's case: a record whose name has three tokens was exported.
MiddleTokenDropped ==
    /\ Exported
    /\ Len(last.before.items) = 1
    /\ Len(Split(last.before.items[1].name)) = 3
    /\ LastTable[2][1] # LastTable[2][2]

\* The content is a sequence of user records with the expected fields.
IsUserList(c) ==
    /\ c.t = "array"
    /\ \A i \in 1..Len(c.items) :
        /\ "t" \notin DOMAIN c.items[i]
        /\ {"name", "email", "phone", "website", "address"} \subseteq DOMAIN c.items[i]

\* C6: an export of a snapshot that is missing or is no sequence of user
\* records ends in an error and saves no workbook.
MalformedSnapshotFails ==
    (last.op = "export" /\ ~IsUserList(last.before))
        => (last.end.outcome = "raise" /\ last.path = <<>>)

\* C7: in a program run the export starts only after a fetch that created
\* the snapshot or found it, never after one whose request failed.
ExportOnlyAfterCache == pc = "line90" => run.fetch \in {"skip", "created"}

\* C8: a program run ends with exit code 0 exactly when both steps
\* succeeded; a run whose fetch failed ends non-zero and saves no workbook.
ExitBehaviour ==
    run.exited =>
        /\ run.code = 0 <=> (run.fetch \in {"skip", "created"} /\ run.export = "saved")
        /\ run.fetch \in {"failed", "raised"} => (run.code # 0 /\ run.export # "saved")

\* C8's case: a run whose request failed has ended.
FailedRunEnded ==
    run.exited /\ run.fetch = "failed" /\ run.export = "raised" /\ run.code = 1

\* s is "files/employees_" + 14 digits + ".xlsx".
IsEmployeesPath(s) ==
    /\ Len(s) = Len(SaveFolder) + 1 + Len(EmployeesPrefix) + 14 + Len(XlsxSuffix)
    /\ SubSeq(s, 1, Len(SaveFolder) + 1 + Len(EmployeesPrefix))
            = SaveFolder \o <<47>> \o EmployeesPrefix
    /\ \A i \in 1..14 : s[Len(SaveFolder) + 1 + Len(EmployeesPrefix) + i] \in 48..57
    /\ SubSeq(s, Len(s) - Len(XlsxSuffix) + 1, Len(s)) = XlsxSuffix

\* C9: every workbook is saved as files/employees_<14 digits>.xlsx, and of
\* two exports at least a second apart the later has the greater file name.
FilenameOrder ==
    /\ \A i \in 1..Len(exports) : IsEmployeesPath(exports[i].path)
    /\ \A i, j \in 1..Len(exports) :
        exports[j].at >= exports[i].at + 1
            => /\ exports[i].path # exports[j].path
               /\ LexLeq(exports[i].path, exports[j].path)

\* C10: a users.json that fetch_user_data_to_json created holds the decoded
\* body of a successful response, never an empty or truncated text.
NoPartialSnapshot ==
    (last.op = "fetch" /\ last.before = Absent /\ last.after # Absent)
        => /\ last.resp.kind = "ok"
           /\ last.after = last.resp.body
           /\ last.after.t # "invalid"

====
